---- MODULE Spec2Model ----
(***************************************************************************)
(* Model of decoders/message.py: the Message base class (hex chunking,     *)
(* header fields x, y, z, message_type) and the Message.factory            *)
(* dispatcher.  Strings are sequences of one-character strings.            *)
(***************************************************************************)
EXTENDS Integers, Sequences, FiniteSets, TLC

VARIABLES raw_message, pyMajor, self, ctor, built, alias, ret

vars == <<raw_message, pyMajor, self, ctor, built, alias, ret>>

(***************************************************************************)
(* Bounds and input alphabets.                                             *)
(***************************************************************************)
MaxLen == 4

HexLower == {"0", "1", "2", "3", "4", "5", "6", "7", "8", "9",
             "a", "b", "c", "d", "e", "f"}

HexUpper == {"A", "B", "C", "D", "E", "F"}

HexChars == HexLower \cup HexUpper

Whitespace == {" "}

Signs == {"+", "-"}

OtherChars == {"g", " ", "-"}

FirstChars == HexChars \cup OtherChars

SecondChars == HexChars \cup OtherChars

ThirdChars == {"A", "g"}

TailChars == {"B", "g"}

CharsAt(i) == IF i = 1 THEN FirstChars
              ELSE IF i = 2 THEN SecondChars
              ELSE IF i = 3 THEN ThirdChars ELSE TailChars

CallerBytes == {47}

RECURSIVE Strs(_)
Strs(n) == IF n = 0 THEN {<<>>}
           ELSE {Append(s, c) : s \in Strs(n - 1), c \in CharsAt(n)}

RawInputs == UNION {Strs(n) : n \in 0..MaxLen}

DeviceTypes == {"LPB", "LBO", "XYZ"}

ProtoVers == {0, 1}

PyMajors == {2, 3}

(***************************************************************************)
(* Python built-ins used by the module.                                    *)
(***************************************************************************)
NoExc == "none"

Take(s, n) == SubSeq(s, 1, IF Len(s) < n THEN Len(s) ELSE n)

Drop(s, n) == SubSeq(s, n + 1, Len(s))

DigitTable ==
    ("0" :> 0) @@ ("1" :> 1) @@ ("2" :> 2) @@ ("3" :> 3) @@ ("4" :> 4) @@
    ("5" :> 5) @@ ("6" :> 6) @@ ("7" :> 7) @@ ("8" :> 8) @@ ("9" :> 9) @@
    ("a" :> 10) @@ ("b" :> 11) @@ ("c" :> 12) @@ ("d" :> 13) @@ ("e" :> 14) @@
    ("f" :> 15) @@ ("A" :> 10) @@ ("B" :> 11) @@ ("C" :> 12) @@ ("D" :> 13) @@
    ("E" :> 14) @@ ("F" :> 15)

IsDigit(c, base) == c \in DOMAIN DigitTable /\ DigitTable[c] < base

RECURSIVE LStrip(_)
LStrip(s) == IF s # <<>> /\ Head(s) \in Whitespace THEN LStrip(Tail(s)) ELSE s

RECURSIVE RStrip(_)
RStrip(s) == IF s # <<>> /\ s[Len(s)] \in Whitespace
             THEN RStrip(SubSeq(s, 1, Len(s) - 1)) ELSE s

Strip(s) == RStrip(LStrip(s))

RECURSIVE DigitsValue(_, _)
DigitsValue(ds, base) ==
    IF ds = <<>> THEN 0
    ELSE base * DigitsValue(SubSeq(ds, 1, Len(ds) - 1), base) + DigitTable[ds[Len(ds)]]

\* int(s, base) for the short literals the module passes: surrounding
\* whitespace is ignored, one sign is allowed, then at least one digit.
int(s, base) ==
    LET t == Strip(s)
        neg == t # <<>> /\ Head(t) = "-"
        ds == IF t # <<>> /\ Head(t) \in Signs THEN Tail(t) ELSE t
    IN IF ds = <<>> \/ \E i \in 1..Len(ds) : ~IsDigit(ds[i], base)
       THEN [exc |-> "ValueError", val |-> 0]
       ELSE [exc |-> NoExc,
             val |-> IF neg THEN 0 - DigitsValue(ds, base) ELSE DigitsValue(ds, base)]

\* n / 2 on an int: floor division on Python 2, true division (a float) on
\* Python 3.  The result is kept in halves, so 1.5 is halves = 3.
PyDiv2(n, py) ==
    IF py = 2 THEN [type |-> "int", halves |-> 2 * (n \div 2)]
    ELSE [type |-> "float", halves |-> n]

(***************************************************************************)
(* decoders.byte.Byte: an 8-bit value whose nibbles are binary strings.    *)
(***************************************************************************)
Bin4(n) == << IF (n \div 8) % 2 = 1 THEN "1" ELSE "0",
              IF (n \div 4) % 2 = 1 THEN "1" ELSE "0",
              IF (n \div 2) % 2 = 1 THEN "1" ELSE "0",
              IF n % 2 = 1 THEN "1" ELSE "0" >>

ByteObj(v) == [value |-> v, high_nibble |-> Bin4(v \div 16), low_nibble |-> Bin4(v % 16)]

Byte(v) == IF v \in 0..255 THEN [exc |-> NoExc, obj |-> ByteObj(v)]
           ELSE [exc |-> "RangeError", obj |-> ByteObj(0)]

(***************************************************************************)
(* class Message                                                           *)
(***************************************************************************)
RECURSIVE convert_to_bytes_step1(_)
convert_to_bytes_step1(seq) ==
    IF seq = <<>> THEN [yielded |-> <<>>, exc |-> NoExc]
    ELSE LET n == int(Take(seq, 2), 16)
         IN IF n.exc # NoExc THEN [yielded |-> <<>>, exc |-> n.exc]
            ELSE LET b == Byte(n.val)
                 IN IF b.exc # NoExc THEN [yielded |-> <<>>, exc |-> b.exc]
                    ELSE LET rest == convert_to_bytes_step1(Drop(seq, 1))
                         IN [yielded |-> <<b.obj>> \o rest.yielded, exc |-> rest.exc]

\* while seq: yield byte.Byte(int(seq[:2], 16)); seq = seq[2:]
\* yielded is what the generator produced before it finished or raised.
RECURSIVE convert_to_bytes(_)
convert_to_bytes(seq) ==
    IF seq = <<>> THEN [yielded |-> <<>>, exc |-> NoExc]
    ELSE LET n == int(Take(seq, 2), 16)
         IN IF n.exc # NoExc THEN [yielded |-> <<>>, exc |-> n.exc]
            ELSE LET b == Byte(n.val)
                 IN IF b.exc # NoExc THEN [yielded |-> <<>>, exc |-> b.exc]
                    ELSE LET rest == convert_to_bytes(Drop(seq, 2))
                         IN [yielded |-> <<b.obj>> \o rest.yielded, exc |-> rest.exc]

NoSelf == [alive |-> FALSE, byte_array |-> <<>>]

Message_init(raw) ==
    LET g == convert_to_bytes(raw)
    IN [self |-> IF g.exc = NoExc THEN [alive |-> TRUE, byte_array |-> g.yielded]
                 ELSE NoSelf,
        exc |-> g.exc,
        built |-> Len(g.yielded)]

message_array(s) == s.byte_array

x(s) == int(s.byte_array[1].high_nibble, 2).val

y(s, py) == PyDiv2(int(s.byte_array[1].low_nibble, 2).val, py)

z(s) == IF int(s.byte_array[1].low_nibble, 2).val % 2 = 0 THEN FALSE ELSE TRUE

message_type(s) ==
    IF x(s) = 0 THEN "AppInit"
    ELSE IF x(s) = 1 THEN "AppData"
    ELSE IF x(s) = 2 THEN "Event"
    ELSE IF x(s) = 3 THEN "Config"
    ELSE "Unknown"

(***************************************************************************)
(* Message.factory                                                         *)
(***************************************************************************)
Unset == 0 - 1

Returned(cls, raw, flag) ==
    [kind |-> "return", exc |-> NoExc, cls |-> cls, raw |-> raw, message_flag |-> flag]

ReturnedNone(flag) == Returned("None", <<>>, flag)

Raised(exc) ==
    [kind |-> "raise", exc |-> exc, cls |-> "None", raw |-> <<>>, message_flag |-> Unset]

factory_swapped(raw, device_type, proto_ver) ==
    IF proto_ver = 0
    THEN LET f == int(Take(raw, 1), 10)
             message_flag == f.val
         IN IF f.exc # NoExc THEN Raised(f.exc)
            ELSE IF message_flag = 0
            THEN IF device_type = "LPB" THEN Returned("LivePulseBlueAppInit", raw, message_flag)
                 ELSE IF device_type = "LBO"
                 THEN Returned("LiveBlackOneAppInit", raw, message_flag)
                 ELSE ReturnedNone(message_flag)
            ELSE IF message_flag = 1
            THEN Returned("LivePulseBlueAppData", raw, message_flag)
            ELSE IF message_flag = 2
            THEN IF device_type = "LPB" THEN Returned("LivePulseBlueEvent", raw, message_flag)
                 ELSE IF device_type = "LBO"
                 THEN Returned("LiveBlackOneEvent", raw, message_flag)
                 ELSE ReturnedNone(message_flag)
            ELSE IF message_flag = 3
            THEN IF device_type = "LPB" THEN Returned("LiveBlackOneConfig", raw, message_flag)
                 ELSE IF device_type = "LBO"
                 THEN Returned("LiveBluePulseConfig", raw, message_flag)
                 ELSE ReturnedNone(message_flag)
            ELSE ReturnedNone(message_flag)
    ELSE ReturnedNone(Unset)

factory(raw, device_type, proto_ver) ==
    IF proto_ver = 0
    THEN LET f == int(Take(raw, 1), 10)
             message_flag == f.val
         IN IF f.exc # NoExc THEN Raised(f.exc)
            ELSE IF message_flag = 0
            THEN IF device_type = "LPB" THEN Returned("LivePulseBlueAppInit", raw, message_flag)
                 ELSE IF device_type = "LBO"
                 THEN Returned("LiveBlackOneAppInit", raw, message_flag)
                 ELSE ReturnedNone(message_flag)
            ELSE IF message_flag = 1
            THEN Returned("LivePulseBlueAppData", raw, message_flag)
            ELSE IF message_flag = 2
            THEN IF device_type = "LPB" THEN Returned("LivePulseBlueEvent", raw, message_flag)
                 ELSE IF device_type = "LBO"
                 THEN Returned("LiveBlackOneEvent", raw, message_flag)
                 ELSE ReturnedNone(message_flag)
            ELSE IF message_flag = 3
            THEN IF device_type = "LPB" THEN Returned("LiveBluePulseConfig", raw, message_flag)
                 ELSE IF device_type = "LBO"
                 THEN Returned("LiveBlackOneConfig", raw, message_flag)
                 ELSE ReturnedNone(message_flag)
            ELSE ReturnedNone(message_flag)
    ELSE ReturnedNone(Unset)

(***************************************************************************)
(* State machine: one raw message, a Message built from it, property       *)
(* reads, the caller's use of the list message_array returns, and factory  *)
(* calls on the same raw message.  ret is the outcome of the last call.    *)
(***************************************************************************)
NoRet == [op |-> "none", kind |-> "none", exc |-> NoExc, val |-> 0]

Return(op, val) == [op |-> op, kind |-> "return", exc |-> NoExc, val |-> val]

Raise(op, exc) == [op |-> op, kind |-> "raise", exc |-> exc, val |-> 0]

Init ==
    /\ raw_message \in RawInputs
    /\ pyMajor \in PyMajors
    /\ self = NoSelf
    /\ ctor = "uncalled"
    /\ built = 0
    /\ alias = FALSE
    /\ ret = NoRet

\* m = Message(raw_message)
Construct ==
    /\ ctor = "uncalled"
    /\ LET r == Message_init(raw_message)
       IN /\ self' = r.self
          /\ ctor' = IF r.exc = NoExc THEN "ok" ELSE r.exc
          /\ built' = r.built
          /\ ret' = IF r.exc = NoExc THEN Return("init", 0) ELSE Raise("init", r.exc)
    /\ UNCHANGED <<raw_message, pyMajor, alias>>

\* a = m.message_array: the caller now holds the list object itself
ReadMessageArray ==
    /\ self.alive
    /\ alias' = TRUE
    /\ ret' = Return("message_array", message_array(self))
    /\ UNCHANGED <<raw_message, pyMajor, self, ctor, built>>

\* a[i] = Byte(v) on the list obtained from m.message_array
CallerSetItem(i, v) ==
    /\ self.alive
    /\ alias
    /\ i \in 1..Len(self.byte_array)
    /\ self' = [self EXCEPT !.byte_array[i] = ByteObj(v)]
    /\ ret' = Return("setitem", 0)
    /\ UNCHANGED <<raw_message, pyMajor, ctor, built, alias>>

ReadX ==
    /\ self.alive
    /\ ret' = IF self.byte_array = <<>> THEN Raise("x", "IndexError")
              ELSE Return("x", x(self))
    /\ UNCHANGED <<raw_message, pyMajor, self, ctor, built, alias>>

ReadY ==
    /\ self.alive
    /\ ret' = IF self.byte_array = <<>> THEN Raise("y", "IndexError")
              ELSE Return("y", y(self, pyMajor))
    /\ UNCHANGED <<raw_message, pyMajor, self, ctor, built, alias>>

ReadZ ==
    /\ self.alive
    /\ ret' = IF self.byte_array = <<>> THEN Raise("z", "IndexError")
              ELSE Return("z", z(self))
    /\ UNCHANGED <<raw_message, pyMajor, self, ctor, built, alias>>

ReadMessageType ==
    /\ self.alive
    /\ ret' = IF self.byte_array = <<>> THEN Raise("message_type", "IndexError")
              ELSE Return("message_type", message_type(self))
    /\ UNCHANGED <<raw_message, pyMajor, self, ctor, built, alias>>

\* Message.factory(raw_message, device_type, proto_ver)
Factory(device_type, proto_ver) ==
    /\ LET r == factory(raw_message, device_type, proto_ver)
       IN ret' = [op |-> "factory", kind |-> r.kind, exc |-> r.exc,
                  val |-> [cls |-> r.cls, raw |-> r.raw, message_flag |-> r.message_flag,
                           device_type |-> device_type, proto_ver |-> proto_ver]]
    /\ UNCHANGED <<raw_message, pyMajor, self, ctor, built, alias>>

Next ==
    \/ Construct
    \/ ReadMessageArray
    \/ \E i \in 1..MaxLen, v \in CallerBytes : CallerSetItem(i, v)
    \/ ReadX
    \/ ReadY
    \/ ReadZ
    \/ ReadMessageType
    \/ \E d \in DeviceTypes, p \in ProtoVers : Factory(d, p)

Spec == Init /\ [][Next]_vars

(***************************************************************************)
(* Reference notions used to state the claims.                             *)
(***************************************************************************)
WellFormed(raw) == Len(raw) % 2 = 0 /\ \A i \in 1..Len(raw) : raw[i] \in HexChars

HasFirstByte(raw) == WellFormed(raw) /\ raw # <<>>

PairValue(raw, i) == 16 * DigitTable[raw[2 * i - 1]] + DigitTable[raw[2 * i]]

FirstByte(raw) == PairValue(raw, 1)

Category(raw) == FirstByte(raw) \div 16

FactoryCalled == ret.op = "factory"

FactoryRaised(exc) == ret.kind = "raise" /\ ret.exc = exc

\* the Message still holds the bytes its constructor stored
Unmutated == self.byte_array = Message_init(raw_message).self.byte_array

DispatchTable ==
    (<<0, "LPB">> :> "LivePulseBlueAppInit") @@ (<<0, "LBO">> :> "LiveBlackOneAppInit") @@
    (<<1, "LPB">> :> "LivePulseBlueAppData") @@
    (<<2, "LPB">> :> "LivePulseBlueEvent") @@ (<<2, "LBO">> :> "LiveBlackOneEvent") @@
    (<<3, "LPB">> :> "LiveBluePulseConfig") @@ (<<3, "LBO">> :> "LiveBlackOneConfig")

LowerDigits == <<"0", "1", "2", "3", "4", "5", "6", "7", "8", "9",
                 "a", "b", "c", "d", "e", "f">>

UpperDigits == <<"0", "1", "2", "3", "4", "5", "6", "7", "8", "9",
                 "A", "B", "C", "D", "E", "F">>

RECURSIVE Reassemble(_, _)
Reassemble(bytes, digits) ==
    IF bytes = <<>> THEN <<>>
    ELSE << digits[(Head(bytes).value \div 16) + 1], digits[(Head(bytes).value % 16) + 1] >>
         \o Reassemble(Tail(bytes), digits)

ToLower(raw) == [i \in 1..Len(raw) |-> LowerDigits[DigitTable[raw[i]] + 1]]

(***************************************************************************)
(* Claims.                                                                 *)
(***************************************************************************)

\* C1: for a well-formed raw message whose first byte has high nibble c in
\* 0..3 and a device type registered for c, factory(raw, device_type, 0)
\* returns the decoder class of the dispatch table, built from the same raw.
C1_DispatchTable ==
    (/\ FactoryCalled
     /\ ret.val.proto_ver = 0
     /\ HasFirstByte(raw_message)
     /\ <<Category(raw_message), ret.val.device_type>> \in DOMAIN DispatchTable)
    => /\ ret.kind = "return"
       /\ ret.val.cls = DispatchTable[<<Category(raw_message), ret.val.device_type>>]
       /\ ret.val.raw = raw_message

C1_Witness ==
    /\ FactoryCalled
    /\ raw_message = <<"3", "0", "A", "B">>
    /\ ret.val.device_type = "LBO"
    /\ ret.val.proto_ver = 0
    /\ ret.val.cls = "LiveBlackOneConfig"

\* C2: for every well-formed non-empty raw message, the category factory
\* dispatches on (message_flag) equals the x field of Message(raw).
C2_FlagIsX ==
    (FactoryCalled /\ ret.val.proto_ver = 0 /\ HasFirstByte(raw_message))
    => /\ ret.kind = "return"
       /\ ret.val.message_flag = x(Message_init(raw_message).self)

\* C3: for a raw message of category 1 and a device type other than "LPB",
\* factory(raw, device_type, 0) fails with UnknownDeviceTypeError.
C3_AppDataUnregistered ==
    (/\ FactoryCalled
     /\ ret.val.proto_ver = 0
     /\ HasFirstByte(raw_message)
     /\ Category(raw_message) = 1
     /\ ret.val.device_type # "LPB")
    => FactoryRaised("UnknownDeviceTypeError")

\* C4: for a raw message of category 0, 2 or 3 and a device type that is
\* neither "LPB" nor "LBO", factory(raw, device_type, 0) fails with
\* UnknownDeviceTypeError and never completes with no result.
C4_UnknownDevice ==
    (/\ FactoryCalled
     /\ ret.val.proto_ver = 0
     /\ HasFirstByte(raw_message)
     /\ Category(raw_message) \in {0, 2, 3}
     /\ ret.val.device_type \notin {"LPB", "LBO"})
    => FactoryRaised("UnknownDeviceTypeError")

\* C5: for every raw message and device type, factory with proto_ver other
\* than 0 fails with UnsupportedVersionError and constructs no decoder.
C5_UnsupportedVersion ==
    (FactoryCalled /\ ret.val.proto_ver # 0)
    => FactoryRaised("UnsupportedVersionError") /\ ret.val.cls = "None"

\* C6: for a well-formed raw message whose first-byte high nibble is 4..15
\* and any device type, factory(raw, device_type, 0) fails with
\* UnknownMessageTypeError: no decoder, no empty result, no other error.
C6_UnknownMessageType ==
    (/\ FactoryCalled
     /\ ret.val.proto_ver = 0
     /\ HasFirstByte(raw_message)
     /\ Category(raw_message) \in 4..15)
    => FactoryRaised("UnknownMessageTypeError")

\* C7: chunking a raw string of odd length or with a non-hexadecimal
\* character fails with a format error (Python's ValueError from int() is
\* taken as that error), and for odd length no byte is constructed first.
FormatErrors == {"FormatError", "ValueError"}

C7_MalformedRejected ==
    (ctor # "uncalled" /\ ~WellFormed(raw_message))
    => /\ ctor \in FormatErrors
       /\ (Len(raw_message) % 2 = 1 => built = 0)

\* C8 (as stated): Message(s).message_array of an even-length valid hex
\* string s has len(s)/2 units, unit i holds the value of the i-th hex pair,
\* and writing the units back as two hex digits each reproduces s exactly.
C8_RoundTripExact ==
    (ret.op = "init" /\ ctor = "ok" /\ WellFormed(raw_message))
    => LET a == message_array(self)
       IN /\ Len(a) * 2 = Len(raw_message)
          /\ \A i \in 1..Len(a) : a[i].value = PairValue(raw_message, i)
          /\ \/ Reassemble(a, LowerDigits) = raw_message
             \/ Reassemble(a, UpperDigits) = raw_message

\* C8 (amended): as above, but writing the units back reproduces s up to the
\* letter case of the digits a-f: exactly s when s is written in the case
\* used for writing back, and s case-folded otherwise.
C8_RoundTripUpToCase ==
    (ret.op = "init" /\ ctor = "ok" /\ WellFormed(raw_message))
    => LET a == message_array(self)
       IN /\ Len(a) * 2 = Len(raw_message)
          /\ \A i \in 1..Len(a) : a[i].value = PairValue(raw_message, i)
          /\ Reassemble(a, LowerDigits) = ToLower(raw_message)
          /\ ((\A i \in 1..Len(raw_message) : raw_message[i] \notin HexUpper)
              => Reassemble(a, LowerDigits) = raw_message)
          /\ ((\A i \in 1..Len(raw_message) : raw_message[i] \notin {"a", "b", "c", "d", "e", "f"})
              => Reassemble(a, UpperDigits) = raw_message)

C8_Witness ==
    /\ ret.op = "init"
    /\ ctor = "ok"
    /\ raw_message = <<"3", "0", "A", "B">>
    /\ Len(message_array(self)) = 2
    /\ message_array(self)[2].value = 171

\* C9: for a Message built from a non-empty well-formed raw string with
\* first byte b: x = b div 16 in 0..15, y is the integer floor((b mod 16)/2)
\* in 0..7, z is true iff b mod 16 is odd, and 16x + 2y + z = b.
C9_HeaderFields ==
    (/\ self.alive
     /\ HasFirstByte(raw_message)
     /\ Unmutated
     /\ ret.op \in {"x", "y", "z"})
    => LET b == FirstByte(raw_message)
       IN /\ ret.kind = "return"
          /\ ret.op = "x" => ret.val = b \div 16 /\ ret.val \in 0..15
          /\ ret.op = "z" => ret.val = ((b % 16) % 2 = 1)
          /\ ret.op = "y" =>
                /\ ret.val.type = "int"
                /\ ret.val.halves = 2 * ((b % 16) \div 2)
                /\ ret.val.halves \in 0..14
                /\ 2 * 16 * x(self) + 2 * ret.val.halves + 2 * (IF z(self) THEN 1 ELSE 0)
                      = 2 * b

\* C10: once a Message is constructed, nothing a caller can do through its
\* public interface changes its byte sequence, so x, y, z and message_type
\* never change either.
C10_Immutable == self.alive => Unmutated

====
